---- MODULE Spec2Model ----
(***************************************************************************)
(* A model of js/script.js: the department cache (ApiService               *)
(* .fetchDepartments over Utils.storage), the dashboard's search filter    *)
(* and its debounce (Dashboard.handleSearch, Utils.debounce) and the login *)
(* form's field validation (LoginManager.validateField).                   *)
(*                                                                         *)
(* Strings that are typed are sequences of one-character strings, and the  *)
(* string literals of the source are listed with their characters          *)
(* (CharsOf), so that trim, toLowerCase, includes and length are computed. *)
(***************************************************************************)
EXTENDS Integers, Sequences, FiniteSets, TLC

\* ------------------------------------------------------------------ bounds
\* Longest value typed into a text or password input.
MaxLen == 6
\* Longest department list handed to the search filter.
MaxDepts == 2
\* Longest query typed into the search box.
MaxQueryLen == 2

\* ----------------------------------------------------------------- strings
Whitespace == {" ", "\t", "\n"}

Upper == <<"A","B","C","D","E","F","G","H","I","J","K","L","M",
           "N","O","P","Q","R","S","T","U","V","W","X","Y","Z">>

Lower == <<"a","b","c","d","e","f","g","h","i","j","k","l","m",
           "n","o","p","q","r","s","t","u","v","w","x","y","z">>

\* The lower-case letter of each upper-case one.
LowerOf ==
  [c \in {Upper[i] : i \in 1..Len(Upper)} |->
     Lower[CHOOSE i \in 1..Len(Upper) : Upper[i] = c]]

\* String.prototype.toLowerCase, one character.
toLowerChar(c) == IF c \in DOMAIN LowerOf THEN LowerOf[c] ELSE c

\* String.prototype.toLowerCase.
toLowerCase(s) == [i \in 1..Len(s) |-> toLowerChar(s[i])]

\* String.prototype.trim: the leading and the trailing whitespace go.
RECURSIVE trimStart(_)
trimStart(s) ==
  IF s # <<>> /\ Head(s) \in Whitespace THEN trimStart(Tail(s)) ELSE s

RECURSIVE trimEnd(_)
trimEnd(s) ==
  IF s # <<>> /\ s[Len(s)] \in Whitespace
    THEN trimEnd(SubSeq(s, 1, Len(s) - 1))
    ELSE s

trim(s) == trimEnd(trimStart(s))

\* String.prototype.includes: q occurs in s as a contiguous substring.
includes(s, q) ==
  \E i \in 0..(Len(s) - Len(q)) : SubSeq(s, i + 1, i + Len(q)) = q

\* All strings over the characters cs of length at most n.
RECURSIVE StringsUpTo(_, _)
StringsUpTo(cs, n) ==
  IF n = 0 THEN {<<>>}
  ELSE LET shorter == StringsUpTo(cs, n - 1)
       IN  shorter \cup {Append(s, c) : s \in shorter, c \in cs}

\* ---------------------------------------------------- MOCK_DEPARTMENTS data
\* MOCK_DEPARTMENTS, each string as the literal of the source.
MOCK_DEPARTMENTS ==
  <<[id |-> "hr",
     name |-> "Human Resources",
     description |-> "Manage employee relations, recruitment, and workforce development",
     icon |-> "fas fa-users",
     color |-> "#667eea",
     employees |-> 25,
     active |-> TRUE],
    [id |-> "finance",
     name |-> "Finance",
     description |-> "Financial planning, budgeting, and accounting operations",
     icon |-> "fas fa-chart-line",
     color |-> "#f093fb",
     employees |-> 18,
     active |-> TRUE],
    [id |-> "it",
     name |-> "Information Technology",
     description |-> "Technology infrastructure, development, and support services",
     icon |-> "fas fa-laptop-code",
     color |-> "#4facfe",
     employees |-> 32,
     active |-> TRUE],
    [id |-> "security",
     name |-> "Security",
     description |-> "Information security, physical security, and risk management",
     icon |-> "fas fa-shield-alt",
     color |-> "#43e97b",
     employees |-> 15,
     active |-> TRUE],
    [id |-> "hse",
     name |-> "HSE",
     description |-> "Health, Safety, and Environment management and compliance",
     icon |-> "fas fa-hard-hat",
     color |-> "#fa709a",
     employees |-> 20,
     active |-> TRUE],
    [id |-> "customer-service",
     name |-> "Customer Service",
     description |-> "Customer support, satisfaction, and relationship management",
     icon |-> "fas fa-headset",
     color |-> "#4facfe",
     employees |-> 35,
     active |-> TRUE],
    [id |-> "environment",
     name |-> "Environment",
     description |-> "Environmental protection, sustainability, and green initiatives",
     icon |-> "fas fa-leaf",
     color |-> "#43e97b",
     employees |-> 18,
     active |-> TRUE] >>

\* The characters of the strings the search filter reads: each department's
\* id, name and description, character by character.
CharsTable ==
  { <<"hr",
      <<"h","r">> >>,
    <<"Human Resources",
      <<"H","u","m","a","n"," ","R","e","s","o","u","r","c","e","s">> >>,
    <<"Manage employee relations, recruitment, and workforce development",
      <<"M","a","n","a","g","e"," ","e","m","p","l","o","y","e","e"," ",
           "r","e","l","a","t","i","o","n","s",","," ","r","e","c","r","u",
           "i","t","m","e","n","t",","," ","a","n","d"," ","w","o","r","k",
           "f","o","r","c","e"," ","d","e","v","e","l","o","p","m","e","n",
           "t">> >>,
    <<"finance",
      <<"f","i","n","a","n","c","e">> >>,
    <<"Finance",
      <<"F","i","n","a","n","c","e">> >>,
    <<"Financial planning, budgeting, and accounting operations",
      <<"F","i","n","a","n","c","i","a","l"," ","p","l","a","n","n","i",
           "n","g",","," ","b","u","d","g","e","t","i","n","g",","," ","a",
           "n","d"," ","a","c","c","o","u","n","t","i","n","g"," ","o","p",
           "e","r","a","t","i","o","n","s">> >>,
    <<"it",
      <<"i","t">> >>,
    <<"Information Technology",
      <<"I","n","f","o","r","m","a","t","i","o","n"," ","T","e","c","h",
           "n","o","l","o","g","y">> >>,
    <<"Technology infrastructure, development, and support services",
      <<"T","e","c","h","n","o","l","o","g","y"," ","i","n","f","r","a",
           "s","t","r","u","c","t","u","r","e",","," ","d","e","v","e","l",
           "o","p","m","e","n","t",","," ","a","n","d"," ","s","u","p","p",
           "o","r","t"," ","s","e","r","v","i","c","e","s">> >>,
    <<"security",
      <<"s","e","c","u","r","i","t","y">> >>,
    <<"Security",
      <<"S","e","c","u","r","i","t","y">> >>,
    <<"Information security, physical security, and risk management",
      <<"I","n","f","o","r","m","a","t","i","o","n"," ","s","e","c","u",
           "r","i","t","y",","," ","p","h","y","s","i","c","a","l"," ","s",
           "e","c","u","r","i","t","y",","," ","a","n","d"," ","r","i","s",
           "k"," ","m","a","n","a","g","e","m","e","n","t">> >>,
    <<"hse",
      <<"h","s","e">> >>,
    <<"HSE",
      <<"H","S","E">> >>,
    <<"Health, Safety, and Environment management and compliance",
      <<"H","e","a","l","t","h",","," ","S","a","f","e","t","y",","," ",
           "a","n","d"," ","E","n","v","i","r","o","n","m","e","n","t"," ",
           "m","a","n","a","g","e","m","e","n","t"," ","a","n","d"," ","c",
           "o","m","p","l","i","a","n","c","e">> >>,
    <<"customer-service",
      <<"c","u","s","t","o","m","e","r","-","s","e","r","v","i","c","e">> >>,
    <<"Customer Service",
      <<"C","u","s","t","o","m","e","r"," ","S","e","r","v","i","c","e">> >>,
    <<"Customer support, satisfaction, and relationship management",
      <<"C","u","s","t","o","m","e","r"," ","s","u","p","p","o","r","t",
           ","," ","s","a","t","i","s","f","a","c","t","i","o","n",","," ",
           "a","n","d"," ","r","e","l","a","t","i","o","n","s","h","i","p",
           " ","m","a","n","a","g","e","m","e","n","t">> >>,
    <<"environment",
      <<"e","n","v","i","r","o","n","m","e","n","t">> >>,
    <<"Environment",
      <<"E","n","v","i","r","o","n","m","e","n","t">> >>,
    <<"Environmental protection, sustainability, and green initiatives",
      <<"E","n","v","i","r","o","n","m","e","n","t","a","l"," ","p","r",
           "o","t","e","c","t","i","o","n",","," ","s","u","s","t","a","i",
           "n","a","b","i","l","i","t","y",","," ","a","n","d"," ","g","r",
           "e","e","n"," ","i","n","i","t","i","a","t","i","v","e","s">> >> }

CharsOf ==
  [s \in {p[1] : p \in CharsTable} |->
     (CHOOSE p \in CharsTable : p[1] = s)[2]]

\* ------------------------------------------------------------------- JSON
\* JSON text is a sequence of tokens, each a kind and its characters:
\* punctuation, a quoted string, a number in decimal digits, or a literal.
Punct(c) == [k |-> "punct", s |-> c, d |-> <<>>]

Str(s) == [k |-> "string", s |-> s, d |-> <<>>]

DigitChars == <<"0","1","2","3","4","5","6","7","8","9">>

\* Number to decimal digits, as JSON.stringify writes a non-negative integer.
RECURSIVE numberToString(_)
numberToString(n) ==
  IF n < 10 THEN <<DigitChars[n + 1]>>
  ELSE Append(numberToString(n \div 10), DigitChars[(n % 10) + 1])

\* Decimal digits to number, as JSON.parse reads them.
RECURSIVE parseNumber(_)
parseNumber(ds) ==
  IF ds = <<>> THEN 0
  ELSE 10 * parseNumber(SubSeq(ds, 1, Len(ds) - 1))
       + ((CHOOSE i \in 1..10 : DigitChars[i] = ds[Len(ds)]) - 1)

Num(n) == [k |-> "number", s |-> "", d |-> numberToString(n)]

Lit(b) == [k |-> "literal", s |-> IF b THEN "true" ELSE "false", d |-> <<>>]

\* The property names of a department record, in the order of the literal.
DeptKeys ==
  <<"id", "name", "description", "icon", "color", "employees", "active">>

\* An object of scalar properties: { "k1" : v1 , "k2" : v2 ... }.
RECURSIVE stringifyMembers(_, _, _)
stringifyMembers(keys, vals, i) ==
  IF i > Len(keys) THEN <<>>
  ELSE (IF i > 1 THEN <<Punct(",")>> ELSE <<>>)
       \o <<Str(keys[i]), Punct(":"), vals[i]>>
       \o stringifyMembers(keys, vals, i + 1)

stringifyObject(keys, vals) ==
  <<Punct("{")>> \o stringifyMembers(keys, vals, 1) \o <<Punct("}")>>

stringifyDept(d) ==
  stringifyObject(DeptKeys,
    <<Str(d.id), Str(d.name), Str(d.description), Str(d.icon), Str(d.color),
      Num(d.employees), Lit(d.active)>>)

RECURSIVE stringifyDeptItems(_, _)
stringifyDeptItems(depts, i) ==
  IF i > Len(depts) THEN <<>>
  ELSE (IF i > 1 THEN <<Punct(",")>> ELSE <<>>)
       \o stringifyDept(depts[i])
       \o stringifyDeptItems(depts, i + 1)

\* JSON.stringify({data, timestamp}).
stringifyCacheEntry(e) ==
  <<Punct("{"), Str("data"), Punct(":"), Punct("[")>>
  \o stringifyDeptItems(e.data, 1)
  \o <<Punct("]"), Punct(","), Str("timestamp"), Punct(":"), Num(e.timestamp), Punct("}")>>

\* The token at a position, or an end mark past the text.
tok(toks, pos) ==
  IF pos \in 1..Len(toks) THEN toks[pos] ELSE [k |-> "end", s |-> "", d |-> <<>>]

\* An object of scalar properties with the expected names, read at pos:
\* whether it is one, its value tokens, and the position after it.
parseObject(toks, pos, keys) ==
  LET n == Len(keys)
      at(i) == pos + 1 + 4 * (i - 1)
  IN  [ok |-> /\ tok(toks, pos) = Punct("{")
              /\ \A i \in 1..n :
                   /\ tok(toks, at(i)) = Str(keys[i])
                   /\ tok(toks, at(i) + 1) = Punct(":")
                   /\ tok(toks, at(i) + 3) = (IF i < n THEN Punct(",") ELSE Punct("}")),
       vals |-> [i \in 1..n |-> tok(toks, at(i) + 2)],
       next |-> pos + 4 * n + 1]

NoDept ==
  [id |-> "", name |-> "", description |-> "", icon |-> "", color |-> "",
   employees |-> 0, active |-> FALSE]

parseDept(toks, pos) ==
  LET o == parseObject(toks, pos, DeptKeys)
      ok == /\ o.ok
            /\ \A i \in 1..5 : o.vals[i].k = "string"
            /\ o.vals[6].k = "number"
            /\ o.vals[7].k = "literal"
  IN  [ok |-> ok,
       value |-> IF ok
                   THEN [id |-> o.vals[1].s, name |-> o.vals[2].s,
                         description |-> o.vals[3].s, icon |-> o.vals[4].s,
                         color |-> o.vals[5].s,
                         employees |-> parseNumber(o.vals[6].d),
                         active |-> (o.vals[7].s = "true")]
                   ELSE NoDept,
       next |-> o.next]

\* The tokens of one department object: per property its name, the colon,
\* the value and what follows it, and the opening brace.
DeptTokens == 4 * Len(DeptKeys) + 1

\* The array of departments that opens at pos and holds n elements, each a
\* department object followed by a comma or, the last one, by the bracket.
parseDeptArray(toks, pos, n) ==
  LET at(i) == pos + 1 + (DeptTokens + 1) * (i - 1) IN
  [ok |-> /\ tok(toks, pos) = Punct("[")
          /\ (n = 0) => tok(toks, pos + 1) = Punct("]")
          /\ \A i \in 1..n :
               /\ parseDept(toks, at(i)).ok
               /\ tok(toks, at(i) + DeptTokens)
                    = (IF i < n THEN Punct(",") ELSE Punct("]")),
   value |-> [i \in 1..n |-> parseDept(toks, at(i)).value],
   next |-> IF n = 0 THEN pos + 2 ELSE at(n) + DeptTokens + 1]

\* JSON.parse of a cache entry, {"data":[...],"timestamp":n}: whether the
\* text is one, and its value. The text's length gives the number of
\* departments, each taking DeptTokens tokens and a separator.
parseCacheEntry(toks) ==
  LET n == IF Len(toks) > 10 THEN (Len(toks) - 9) \div (DeptTokens + 1) ELSE 0
      p == IF n = 0 THEN 6 ELSE 5 + (DeptTokens + 1) * n
      ok == /\ tok(toks, 1) = Punct("{")
            /\ tok(toks, 2) = Str("data")
            /\ tok(toks, 3) = Punct(":")
            /\ parseDeptArray(toks, 4, n).ok
            /\ tok(toks, p) = Punct(",")
            /\ tok(toks, p + 1) = Str("timestamp")
            /\ tok(toks, p + 2) = Punct(":")
            /\ tok(toks, p + 3).k = "number"
            /\ tok(toks, p + 4) = Punct("}")
            /\ Len(toks) = p + 4
  IN  [ok |-> ok,
       value |-> IF ok
                   THEN [data |-> parseDeptArray(toks, 4, n).value,
                         timestamp |-> parseNumber(tok(toks, p + 3).d)]
                   ELSE [data |-> <<>>, timestamp |-> 0]]

\* ------------------------------------------------------------ Utils.storage
VARIABLES
  localStorage,  \* the browser's store: key -> JSON text, absent keys left out
  now,           \* Date.now(), in milliseconds from the first page load
  ticks,         \* how often the clock has advanced
  calls,         \* per calling page: the fetchDepartments call it has in flight
  lastWritten    \* the value handed to the last storage.set that took effect

cacheVars == <<localStorage, now, ticks, calls, lastWritten>>

\* How often the clock advances in a run.
MaxTicks == 2

\* CONFIG.STORAGE_KEYS
STORAGE_KEYS ==
  [DEPARTMENTS |-> "megaproject_departments",
   USER_SESSION |-> "megaproject_session",
   REMEMBER_ME |-> "megaproject_remember"]

\* The cache's freshness window: 5 minutes, in milliseconds.
TTL == 5 * 60 * 1000

\* simulateApiDelay's default minimum.
MinDelay == 500

\* A storage.set without its try/catch: the exception of localStorage.setItem
\* reaches the caller.
storageSetItemThrows(store, key, text, fails) ==
  IF fails THEN [ok |-> FALSE, threw |-> TRUE, store |-> store]
  ELSE [ok |-> TRUE, threw |-> FALSE,
        store |-> [k \in DOMAIN store \cup {key} |->
                     IF k = key THEN text ELSE store[k]]]

\* A storage.set that keeps the value a key already has.
storageSetItemIfAbsent(store, key, text, fails) ==
  IF fails THEN [ok |-> FALSE, threw |-> FALSE, store |-> store]
  ELSE [ok |-> TRUE, threw |-> FALSE,
        store |-> [k \in DOMAIN store \cup {key} |->
                     IF k \in DOMAIN store THEN store[k] ELSE text]]

\* storage.set, given the JSON text of the value: localStorage.setItem either
\* stores it or throws (quota, storage disabled); the exception is caught,
\* logged and answered with false.
storageSetItem(store, key, text, fails) ==
  IF fails THEN [ok |-> FALSE, threw |-> FALSE, store |-> store]
  ELSE [ok |-> TRUE, threw |-> FALSE,
        store |-> [k \in DOMAIN store \cup {key} |->
                     IF k = key THEN text ELSE store[k]]]

\* storage.get up to JSON.parse: the item under the key, none when the key
\* is absent or localStorage.getItem throws (the exception is caught).
storageGetItem(store, key, fails) ==
  IF fails \/ key \notin DOMAIN store
    THEN [found |-> FALSE, threw |-> FALSE, text |-> <<>>]
    ELSE [found |-> TRUE, threw |-> FALSE, text |-> store[key]]

\* storage.get(CONFIG.STORAGE_KEYS.DEPARTMENTS): the parsed cache entry, or
\* the default (null) when there is no item or JSON.parse throws.
storageGetCacheEntry(store, fails) ==
  LET g == storageGetItem(store, STORAGE_KEYS.DEPARTMENTS, fails)
      p == parseCacheEntry(g.text)
  IN  IF g.found /\ p.ok
        THEN [found |-> TRUE, threw |-> g.threw, value |-> p.value]
        ELSE [found |-> FALSE, threw |-> g.threw,
              value |-> [data |-> <<>>, timestamp |-> 0]]

\* ------------------------------------------- ApiService.fetchDepartments
\* The pages that call fetchDepartments: Dashboard.loadDepartments and
\* LoginManager.loadDepartments.
Callers == {"dashboard", "login"}

NoResult == [success |-> FALSE, data |-> <<>>, error |-> ""]

\* A page with no call in flight.
IdleCall ==
  [pc |-> "idle",
   checkedAt |-> 0,                                  \* Date.now() at the check
   cached |-> [present |-> FALSE, timestamp |-> 0],  \* what storage.get gave
   readFailed |-> FALSE,   \* localStorage threw inside storage.get
   writeFailed |-> FALSE,  \* localStorage threw inside storage.set
   delays |-> 0,           \* simulateApiDelay calls awaited
   sets |-> 0,             \* storage.set calls made
   wroteAt |-> 0,          \* Date.now() in the entry handed to storage.set
   result |-> NoResult]

\* The freshness test with the expiry instant counted as fresh.
isFreshInclusive(cached, dateNow) == cached.timestamp >= dateNow - TTL

\* The freshness test turned around.
isFreshInverted(cached, dateNow) == cached.timestamp < dateNow - TTL

\* cached.timestamp > Date.now() - 5 * 60 * 1000
isFresh(cached, dateNow) == cached.timestamp > dateNow - TTL

\* A cache entry stamped with the time the call began.
cacheEntryStampedAtStart(call, dateNow) ==
  [data |-> MOCK_DEPARTMENTS, timestamp |-> call.checkedAt]

\* The entry fetchDepartments caches: the fetched data and Date.now().
cacheEntry(call, dateNow) ==
  [data |-> MOCK_DEPARTMENTS, timestamp |-> dateNow]

\* The catch block's result.
fetchError ==
  [success |-> FALSE, data |-> <<>>,
   error |-> "Unable to load departments. Please try again later."]

\* fetchDepartments up to its await: the cache is read and tested; a fresh
\* entry is returned at once, anything else starts the simulated delay.
FetchStart(c) ==
  /\ calls[c].pc = "idle"
  /\ \E fails \in BOOLEAN :
       LET g == storageGetCacheEntry(localStorage, fails)
           call == [IdleCall EXCEPT
                      !.checkedAt = now,
                      !.cached = [present |-> g.found,
                                  timestamp |-> g.value.timestamp],
                      !.readFailed = fails]
       IN  calls' = [calls EXCEPT ![c] =
             IF g.threw
               THEN [call EXCEPT !.pc = "done", !.result = fetchError]
             ELSE IF g.found /\ isFresh(g.value, now)
               THEN [call EXCEPT !.pc = "done",
                       !.result = [success |-> TRUE, data |-> g.value.data,
                                   error |-> ""]]
             ELSE [call EXCEPT !.pc = "delay", !.delays = @ + 1]]
  /\ UNCHANGED <<localStorage, now, ticks, lastWritten>>

\* fetchDepartments after its await: the mock data is cached under the
\* current time and returned.
FetchResume(c) ==
  /\ calls[c].pc = "delay"
  /\ now - calls[c].checkedAt >= MinDelay
  /\ \E fails \in BOOLEAN :
       LET entry == cacheEntry(calls[c], now)
           w == storageSetItem(localStorage, STORAGE_KEYS.DEPARTMENTS,
                               stringifyCacheEntry(entry), fails)
       IN  /\ localStorage' = w.store
           /\ lastWritten' = IF w.ok THEN [written |-> TRUE, entry |-> entry]
                             ELSE lastWritten
           /\ calls' = [calls EXCEPT ![c] =
                [@ EXCEPT !.pc = "done", !.sets = @ + 1,
                          !.wroteAt = entry.timestamp,
                          !.writeFailed = fails,
                          !.result = IF w.threw THEN fetchError
                                     ELSE [success |-> TRUE, data |-> entry.data,
                                           error |-> ""]]]
  /\ UNCHANGED <<now, ticks>>

\* The caller has taken the result: the page can call again.
FetchReturn(c) ==
  /\ calls[c].pc = "done"
  /\ calls' = [calls EXCEPT ![c] = IdleCall]
  /\ UNCHANGED <<localStorage, now, ticks, lastWritten>>

\* The amounts of time the clock moves by: the shortest simulated delay, one
\* millisecond less than the freshness window, and the window itself.
AdvanceSteps == {MinDelay, TTL - 1, TTL}

\* Time passes.
Advance ==
  /\ ticks < MaxTicks
  /\ \E d \in AdvanceSteps : now' = now + d
  /\ ticks' = ticks + 1
  /\ UNCHANGED <<localStorage, calls, lastWritten>>

\* -------------------------------------------------- Dashboard: search filter
VARIABLES
  departments,          \* this.departments
  filteredDepartments,  \* this.filteredDepartments
  searchInput,          \* this.searchInput.value
  lastQuery             \* the value the last handleSearch call read, if one ran

searchVars == <<departments, filteredDepartments, searchInput, lastQuery>>

\* The characters typed into the search box.
SearchChars == {"h", "R", " ", "\t"}

NoQuery == [ran |-> FALSE, value |-> <<>>]

\* The arrow function handed to Array.prototype.filter: the department's
\* name, description or id holds the query, case aside.
matchesQuery(dept, query) ==
  \/ includes(toLowerCase(CharsOf[dept.name]), query)
  \/ includes(toLowerCase(CharsOf[dept.description]), query)
  \/ includes(toLowerCase(CharsOf[dept.id]), query)

\* handleSearch with a loop that starts one match too late.
filterDepartmentsSkipsFirst(depts, value) ==
  LET query == trim(toLowerCase(value))
      match(dept) == matchesQuery(dept, query)
      kept == SelectSeq(depts, match)
  IN  IF query = <<>> THEN depts
      ELSE IF kept = <<>> THEN kept ELSE Tail(kept)

\* handleSearch without the trim of the query.
filterDepartmentsNoTrim(depts, value) ==
  LET query == toLowerCase(value)
      match(dept) == matchesQuery(dept, query)
  IN  IF query = <<>> THEN depts ELSE SelectSeq(depts, match)

\* What handleSearch assigns to this.filteredDepartments, given
\* this.departments and the search input's value.
filterDepartments(depts, value) ==
  LET query == trim(toLowerCase(value))
      match(dept) == matchesQuery(dept, query)
  IN  IF query = <<>> THEN depts ELSE SelectSeq(depts, match)

\* A handleSearch that filters this.departments in place.
handleSearchInPlace(depts, value) ==
  [departments |-> filterDepartments(depts, value),
   filteredDepartments |-> filterDepartments(depts, value)]

\* handleSearch: the two lists of the dashboard afterwards.
handleSearch(depts, value) ==
  [departments |-> depts,
   filteredDepartments |-> filterDepartments(depts, value)]

\* The keypress listener on Enter: handleSearch at once.
KeypressEnter ==
  LET after == handleSearch(departments, searchInput) IN
  /\ departments' = after.departments
  /\ filteredDepartments' = after.filteredDepartments
  /\ lastQuery' = [ran |-> TRUE, value |-> searchInput]
  /\ UNCHANGED searchInput

\* The department lists a load can leave in this.departments: at most
\* MaxDepts records, each one of the mock records, in any order.
RECURSIVE ListsUpTo(_, _)
ListsUpTo(S, n) ==
  IF n = 0 THEN {<<>>}
  ELSE LET shorter == ListsUpTo(S, n - 1)
       IN  shorter \cup {Append(l, x) : l \in shorter, x \in S}

DeptRecords == {MOCK_DEPARTMENTS[i] : i \in 1..Len(MOCK_DEPARTMENTS)}

\* ----------------------------------------- Dashboard: the debounced search
VARIABLES
  loadState,    \* "loading" while init awaits loadDepartments, then "loaded"
  clock,        \* the dashboard page's time, in milliseconds from its load
  clockTicks,   \* how often that clock has advanced
  timers,       \* the browser's pending timers: id and due time of each
  timeout,      \* debounce's closure variable: the last timer id, 0 if undefined
  nextTimerId,  \* the id the next setTimeout returns
  inputLog,     \* the input events so far: how many, and the latest one
  execLog       \* the debounced handler's executions since the latest input

debounceVars == <<loadState, clock, clockTicks, timers, timeout, nextTimerId,
                  inputLog, execLog>>

\* Most advances of the dashboard's clock.
MaxClockTicks == 3
\* Most timers the search box starts.
MaxTimers == 2

\* The wait handed to Utils.debounce for the search box.
DebounceWait == 300

\* The clock moves by a millisecond, or by just less than the wait.
TickSteps == {1, DebounceWait - 1}

NoInput == [count |-> 0, at |-> 0, gap |-> -1, timer |-> 0]

NoExec == [sinceInput |-> 0, at |-> 0, timer |-> 0]

\* clearTimeout: the timer of that id, if still pending, is dropped.
clearTimeout(timerSet, id) == {t \in timerSet : t.id # id}

\* setTimeout(later, wait): a new pending timer, due wait ms from now.
setTimeout(timerSet, id, dateNow, wait) ==
  timerSet \cup {[id |-> id, due |-> dateNow + wait]}

\* A debounce that leaves the pending timer running.
executedFunctionKeepsPending(timerSet, timeoutId, newId, dateNow) ==
  [timers |-> setTimeout(timerSet, newId, dateNow, DebounceWait),
   timeout |-> newId]

\* The function Utils.debounce returns, called on an input event: the
\* pending timer is cancelled and a new one started.
executedFunction(timerSet, timeoutId, newId, dateNow) ==
  [timers |-> setTimeout(clearTimeout(timerSet, timeoutId), newId, dateNow,
                         DebounceWait),
   timeout |-> newId]

\* The characters typed into the search box while its timers run.
TypedChars == {"h", " "}

\* The values one edit of the search box can leave: a character typed at the
\* end, or the last one deleted.
EditsOf(value) ==
  {Append(value, ch) : ch \in {c \in TypedChars : Len(value) < MaxQueryLen}}
    \cup {SubSeq(value, 1, Len(value) - 1) : k \in {l \in {1} : value # <<>>}}

\* An input event on the search box: the debounced handler is called.
InputEvent ==
  /\ nextTimerId <= MaxTimers
  /\ \E v \in EditsOf(searchInput) : searchInput' = v
  /\ LET after == executedFunction(timers, timeout, nextTimerId, clock) IN
       /\ timers' = after.timers
       /\ timeout' = after.timeout
  /\ nextTimerId' = nextTimerId + 1
  /\ inputLog' = [count |-> inputLog.count + 1,
                  at |-> clock,
                  gap |-> IF inputLog.count = 0 THEN -1 ELSE clock - inputLog.at,
                  timer |-> nextTimerId]
  /\ execLog' = [execLog EXCEPT !.sinceInput = 0]
  /\ UNCHANGED <<departments, filteredDepartments, lastQuery, loadState,
                 clock, clockTicks>>

\* A timer of the search box comes due and the browser runs `later`:
\* clearTimeout(timeout), then handleSearch.
TimerFire ==
  \E t \in timers :
    /\ clock >= t.due
    /\ timers' = clearTimeout(timers \ {t}, timeout)
    /\ LET after == handleSearch(departments, searchInput) IN
         /\ departments' = after.departments
         /\ filteredDepartments' = after.filteredDepartments
    /\ lastQuery' = [ran |-> TRUE, value |-> searchInput]
    /\ execLog' = [sinceInput |-> execLog.sinceInput + 1,
                   at |-> clock,
                   timer |-> t.id]
    /\ UNCHANGED <<searchInput, loadState, clock, clockTicks, timeout,
                   nextTimerId, inputLog>>

\* Time passes on the dashboard page. A due timer runs when the browser gets
\* to it: at its due time or later.
Tick ==
  /\ clockTicks < MaxClockTicks
  /\ \E step \in TickSteps : clock' = clock + step
  /\ clockTicks' = clockTicks + 1
  /\ UNCHANGED <<searchVars, loadState, timers, timeout, nextTimerId,
                 inputLog, execLog>>

\* The Enter key on the dashboard page: handleSearch at once, the timers
\* untouched.
DashboardEnter ==
  /\ KeypressEnter
  /\ UNCHANGED debounceVars

\* loadDepartments resumes with the result of fetchDepartments: the list is
\* stored and shown unfiltered.
LoadDepartmentsDone ==
  /\ loadState = "loading"
  /\ loadState' = "loaded"
  /\ departments' = MOCK_DEPARTMENTS
  /\ filteredDepartments' = departments'
  /\ UNCHANGED <<searchInput, lastQuery, clock, clockTicks, timers, timeout,
                 nextTimerId, inputLog, execLog>>

\* ------------------------------------------------- LoginManager: validation
VARIABLES
  field,        \* the form element under edit: name, type, value, classList, feedback
  validateRet   \* what the last validateField call was given and returned

validateVars == <<field, validateRet>>

\* The characters typed into the login form's inputs.
FormChars == {"a", " "}

\* The login form's three validated elements and the type each one reports.
FormFields ==
  { [name |-> "username", type |-> "text"],
    [name |-> "password", type |-> "password"],
    [name |-> "departmentSelect", type |-> "select-one"] }

\* The option values of the department select: the placeholder and one per
\* department.
SelectOptions == {<<>>} \cup {CharsOf[MOCK_DEPARTMENTS[i].id] : i \in 1..Len(MOCK_DEPARTMENTS)}

NoRet == [called |-> FALSE, type |-> "", raw |-> <<>>, isValid |-> TRUE,
          errorMessage |-> ""]

\* validateFieldResult without the trim: the raw value is judged.
validateFieldResultNoTrim(type, raw) ==
  CASE type = "text" ->
         IF raw = <<>>
           THEN [isValid |-> FALSE, errorMessage |-> "Username is required"]
         ELSE IF Len(raw) < 3
           THEN [isValid |-> FALSE,
                 errorMessage |-> "Username must be at least 3 characters"]
         ELSE [isValid |-> TRUE, errorMessage |-> ""]
    [] OTHER -> [isValid |-> TRUE, errorMessage |-> ""]

\* validateField's switch: the verdict and the message for a field of the
\* given type holding the raw value.
validateFieldResult(type, raw) ==
  LET value == trim(raw) IN
  CASE type = "text" ->
         IF value = <<>>
           THEN [isValid |-> FALSE, errorMessage |-> "Username is required"]
         ELSE IF Len(value) < 3
           THEN [isValid |-> FALSE,
                 errorMessage |-> "Username must be at least 3 characters"]
         ELSE [isValid |-> TRUE, errorMessage |-> ""]
    [] type = "password" ->
         IF value = <<>>
           THEN [isValid |-> FALSE, errorMessage |-> "Password is required"]
         ELSE IF Len(value) < 6
           THEN [isValid |-> FALSE,
                 errorMessage |-> "Password must be at least 6 characters"]
         ELSE [isValid |-> TRUE, errorMessage |-> ""]
    [] type = "select-one" ->
         IF value = <<>>
           THEN [isValid |-> FALSE, errorMessage |-> "Please select a department"]
           ELSE [isValid |-> TRUE, errorMessage |-> ""]
    [] OTHER -> [isValid |-> TRUE, errorMessage |-> ""]

\* setFieldValidation: the element's classes and feedback text afterwards.
setFieldValidation(f, isValid, errorMessage) ==
  IF isValid
    THEN [f EXCEPT !.classList = (@ \ {"is-invalid"}) \cup {"is-valid"}]
    ELSE [f EXCEPT !.classList = (@ \ {"is-valid"}) \cup {"is-invalid"},
                   !.feedback = IF errorMessage # "" THEN errorMessage ELSE @]

\* clearFieldError: both validity classes go, the feedback text stays.
clearFieldError(f) == [f EXCEPT !.classList = @ \ {"is-invalid", "is-valid"}]

\* The 'blur' listener: validateField(field).
ValidateField ==
  LET r == validateFieldResult(field.type, field.value) IN
  /\ field' = setFieldValidation(field, r.isValid, r.errorMessage)
  /\ validateRet' = [called |-> TRUE, type |-> field.type, raw |-> field.value,
                     isValid |-> r.isValid, errorMessage |-> r.errorMessage]

\* The 'input' listener after the user has typed one more character.
TypeChar ==
  /\ field.type # "select-one"
  /\ Len(field.value) < MaxLen
  /\ \E c \in FormChars :
       field' = clearFieldError([field EXCEPT !.value = Append(@, c)])
  /\ validateRet' = NoRet

\* The 'input' listener after the user has deleted the last character.
DeleteChar ==
  /\ field.type # "select-one"
  /\ field.value # <<>>
  /\ field' = clearFieldError(
                [field EXCEPT !.value = SubSeq(@, 1, Len(@) - 1)])
  /\ validateRet' = NoRet

\* The 'input' listener after the user has picked an option of the select.
SelectOption ==
  /\ field.type = "select-one"
  /\ \E v \in SelectOptions \ {field.value} :
       field' = clearFieldError([field EXCEPT !.value = v])
  /\ validateRet' = NoRet

\* ------------------------------------------------- ApiService.loginUser
VARIABLES
  logins,        \* per login page: the loginUser call it has in flight
  lastSession,   \* the page whose loginUser call wrote the session entry last
  lastCache      \* the page whose fetchDepartments call wrote the cache last

apiVars == <<logins, lastSession, lastCache>>

\* The browser tabs that show the login page, over one localStorage.
LoginPages == {"tabA", "tabB"}

\* The upper-case letter of each lower-case one.
UpperOf ==
  [c \in {Lower[i] : i \in 1..Len(Lower)} |->
     Upper[CHOOSE i \in 1..Len(Lower) : Lower[i] = c]]

\* String.prototype.toUpperCase, one character.
toUpperChar(c) == IF c \in DOMAIN UpperOf THEN UpperOf[c] ELSE c

\* The characters of '@megaproject.com'.
EmailDomain ==
  <<"@","m","e","g","a","p","r","o","j","e","c","t",".","c","o","m">>

\* The characters of ' User'.
UserSuffix == <<" ","U","s","e","r">>

\* simulateApiDelay(1000, 2000): the shortest delay of a login.
LoginMinDelay == 1000

\* Date.prototype.toISOString: the text of an instant, here the digits of
\* its milliseconds, so that different instants give different texts.
toISOString(ms) == numberToString(ms)

\* A JSON string given by its characters.
Chars(cs) == [k |-> "string", s |-> "", d |-> cs]

\* The string of n characters c.
Repeat(c, n) == [i \in 1..n |-> c]

\* The credentials records handed to loginUser: a user that passes its
\* checks, with and without remember-me; a second user of another
\* department; and the first user with a field too short or missing.
CredentialsSet ==
  { [username |-> <<"a","b","a">>, password |-> Repeat("x", 6),
     department |-> CharsOf["hr"], rememberMe |-> r] : r \in BOOLEAN }
  \cup
  { [username |-> <<"b","a","b">>, password |-> Repeat("x", 6),
     department |-> CharsOf["it"], rememberMe |-> TRUE],
    [username |-> <<"a","b">>, password |-> Repeat("x", 6),
     department |-> CharsOf["hr"], rememberMe |-> TRUE],
    [username |-> <<"a","b","a">>, password |-> Repeat("x", 5),
     department |-> CharsOf["hr"], rememberMe |-> TRUE],
    [username |-> <<"a","b","a">>, password |-> Repeat("x", 6),
     department |-> <<>>, rememberMe |-> TRUE] }

\* The credentials of the pages that log in beside a department fetch: the
\* two users and a password that is too short.
StoreCredentials ==
  {c \in CredentialsSet :
     c.rememberMe /\ Len(c.username) = 3 /\ c.department # <<>>}

NoCredentials ==
  [username |-> <<>>, password |-> <<>>, department |-> <<>>,
   rememberMe |-> FALSE]

NoUser ==
  [id |-> 0, username |-> <<>>, department |-> <<>>, name |-> <<>>,
   email |-> <<>>, role |-> "", permissions |-> <<>>, lastLogin |-> <<>>]

\* A mock validation that tests presence only, not length.
loginCheckPresenceOnly(credentials) ==
  IF \/ credentials.username = <<>>
     \/ credentials.password = <<>>
     \/ credentials.department = <<>>
    THEN "All fields are required"
  ELSE ""

\* The mock validation of loginUser: the message of the Error it throws, or
\* the empty string when the credentials pass.
loginCheck(credentials) ==
  IF \/ credentials.username = <<>>
     \/ credentials.password = <<>>
     \/ credentials.department = <<>>
    THEN "All fields are required"
  ELSE IF Len(credentials.username) < 3
    THEN "Username must be at least 3 characters"
  ELSE IF Len(credentials.password) < 6
    THEN "Password must be at least 6 characters"
  ELSE ""

\* A userData that carries the password along.
userDataWithPassword(credentials, dateNow) ==
  [id |-> dateNow,
   username |-> credentials.username,
   department |-> credentials.department,
   name |-> credentials.password,
   email |-> credentials.username \o EmailDomain,
   role |-> "user",
   permissions |-> <<"read", "write">>,
   lastLogin |-> toISOString(dateNow)]

\* A userData whose email is the bare user name.
userDataBareEmail(credentials, dateNow) ==
  [id |-> dateNow,
   username |-> credentials.username,
   department |-> credentials.department,
   name |-> <<toUpperChar(credentials.username[1])>>
              \o Tail(credentials.username) \o UserSuffix,
   email |-> credentials.username,
   role |-> "user",
   permissions |-> <<"read", "write">>,
   lastLogin |-> toISOString(dateNow)]

\* The userData record of a successful login.
userData(credentials, dateNow) ==
  [id |-> dateNow,
   username |-> credentials.username,
   department |-> credentials.department,
   name |-> <<toUpperChar(credentials.username[1])>>
              \o Tail(credentials.username) \o UserSuffix,
   email |-> credentials.username \o EmailDomain,
   role |-> "user",
   permissions |-> <<"read", "write">>,
   lastLogin |-> toISOString(dateNow)]

\* A remember-me entry that leaves the department out.
rememberedLoginNoDepartment(credentials) ==
  [username |-> credentials.username, department |-> <<>>]

\* The entry kept for remember-me.
rememberedLogin(credentials) ==
  [username |-> credentials.username, department |-> credentials.department]

\* The scalar properties userData opens with, in the order of the literal.
UserKeys == <<"id", "username", "department", "name", "email", "role">>

RememberKeys == <<"username", "department">>

RECURSIVE stringifyStrings(_, _)
stringifyStrings(strs, i) ==
  IF i > Len(strs) THEN <<>>
  ELSE (IF i > 1 THEN <<Punct(",")>> ELSE <<>>)
       \o <<Str(strs[i])>> \o stringifyStrings(strs, i + 1)

\* JSON.stringify(userData).
stringifyUserData(u) ==
  <<Punct("{")>>
  \o stringifyMembers(UserKeys,
       <<Num(u.id), Chars(u.username), Chars(u.department), Chars(u.name),
         Chars(u.email), Str(u.role)>>, 1)
  \o <<Punct(","), Str("permissions"), Punct(":"), Punct("[")>>
  \o stringifyStrings(u.permissions, 1)
  \o <<Punct("]"), Punct(","), Str("lastLogin"), Punct(":"),
       Chars(u.lastLogin), Punct("}")>>

\* JSON.stringify({username, department}).
stringifyRemembered(r) ==
  stringifyObject(RememberKeys, <<Chars(r.username), Chars(r.department)>>)

\* JSON.parse of a session record: the scalar properties, the permissions
\* array (a string or more) up to its bracket, then lastLogin.
parseUserData(toks) ==
  LET n == Len(UserKeys)
      at(i) == 2 + 4 * (i - 1)
      a == at(n + 1)
      m == (Len(toks) - a - 7) \div 2
      z == a + 4 + 2 * m
      ok == /\ m >= 1
            /\ Len(toks) = z + 3
            /\ tok(toks, 1) = Punct("{")
            /\ \A i \in 1..n :
                 /\ tok(toks, at(i)) = Str(UserKeys[i])
                 /\ tok(toks, at(i) + 1) = Punct(":")
                 /\ tok(toks, at(i) + 3) = Punct(",")
            /\ tok(toks, at(1) + 2).k = "number"
            /\ \A i \in 2..n : tok(toks, at(i) + 2).k = "string"
            /\ tok(toks, a) = Str("permissions")
            /\ tok(toks, a + 1) = Punct(":")
            /\ tok(toks, a + 2) = Punct("[")
            /\ \A j \in 1..m :
                 /\ tok(toks, a + 1 + 2 * j).k = "string"
                 /\ tok(toks, a + 2 + 2 * j)
                      = (IF j < m THEN Punct(",") ELSE Punct("]"))
            /\ tok(toks, z - 1) = Punct(",")
            /\ tok(toks, z) = Str("lastLogin")
            /\ tok(toks, z + 1) = Punct(":")
            /\ tok(toks, z + 2).k = "string"
            /\ tok(toks, z + 3) = Punct("}")
  IN  [ok |-> ok,
       value |-> IF ok
                   THEN [id |-> parseNumber(tok(toks, at(1) + 2).d),
                         username |-> tok(toks, at(2) + 2).d,
                         department |-> tok(toks, at(3) + 2).d,
                         name |-> tok(toks, at(4) + 2).d,
                         email |-> tok(toks, at(5) + 2).d,
                         role |-> tok(toks, at(6) + 2).s,
                         permissions |->
                           [j \in 1..m |-> tok(toks, a + 1 + 2 * j).s],
                         lastLogin |-> tok(toks, z + 2).d]
                   ELSE NoUser]

\* JSON.parse of a remembered login.
parseRemembered(toks) ==
  LET o == parseObject(toks, 1, RememberKeys)
      ok == /\ o.ok
            /\ Len(toks) = o.next - 1
            /\ \A i \in 1..Len(RememberKeys) : o.vals[i].k = "string"
  IN  [ok |-> ok,
       value |-> IF ok
                   THEN [username |-> o.vals[1].d, department |-> o.vals[2].d]
                   ELSE [username |-> <<>>, department |-> <<>>]]

NoLoginResult ==
  [success |-> FALSE, present |-> FALSE, data |-> NoUser, error |-> "",
   message |-> ""]

\* A login page with no loginUser call in flight.
IdleLogin ==
  [pc |-> "idle",
   credentials |-> NoCredentials,
   startedAt |-> 0,            \* Date.now() when loginUser was called
   rememberFailed |-> FALSE,   \* localStorage threw in the remember-me set
   sessionFailed |-> FALSE,    \* localStorage threw in the session set
   sets |-> 0,                 \* storage.set calls made
   result |-> NoLoginResult]

\* The catch block's result for an Error with the given message.
loginError(msg) ==
  [success |-> FALSE, present |-> FALSE, data |-> NoUser,
   error |-> IF msg # "" THEN msg
             ELSE "Login failed. Please check your credentials.",
   message |-> ""]

\* loginUser after its await: the mock validation, then the two storage.set
\* calls and the result; a thrown Error ends in the catch block's result.
loginUser(store, credentials, dateNow, failsRemember, failsSession) ==
  LET msg == loginCheck(credentials)
      u == userData(credentials, dateNow)
      r == IF credentials.rememberMe
             THEN storageSetItem(store, STORAGE_KEYS.REMEMBER_ME,
                    stringifyRemembered(rememberedLogin(credentials)),
                    failsRemember)
             ELSE [ok |-> TRUE, threw |-> FALSE, store |-> store]
      s == storageSetItem(r.store, STORAGE_KEYS.USER_SESSION,
                          stringifyUserData(u), failsSession)
  IN  IF msg # ""
        THEN [store |-> store, sets |-> 0, wroteSession |-> FALSE,
              rememberFailed |-> FALSE, sessionFailed |-> FALSE,
              result |-> loginError(msg)]
      ELSE IF r.threw
        THEN [store |-> r.store, sets |-> 1, wroteSession |-> FALSE,
              rememberFailed |-> TRUE, sessionFailed |-> FALSE,
              result |-> loginError("QuotaExceededError")]
      ELSE [store |-> s.store,
            sets |-> IF credentials.rememberMe THEN 2 ELSE 1,
            wroteSession |-> s.ok,
            rememberFailed |-> ~r.ok,
            sessionFailed |-> ~s.ok,
            result |-> IF s.threw THEN loginError("QuotaExceededError")
                       ELSE [success |-> TRUE, present |-> TRUE, data |-> u,
                             error |-> "",
                             message |->
                               "Login successful! Redirecting to dashboard..."]]

\* A page calls loginUser: the call runs up to its await.
LoginStart(p, credentials) ==
  /\ logins[p].pc = "idle"
  /\ logins' = [logins EXCEPT ![p] =
       [IdleLogin EXCEPT !.pc = "delay", !.credentials = credentials,
                         !.startedAt = now]]
  /\ UNCHANGED <<cacheVars, lastSession, lastCache>>

\* loginUser resumes after the simulated delay and returns.
LoginResume(p) ==
  /\ logins[p].pc = "delay"
  /\ now - logins[p].startedAt >= LoginMinDelay
  /\ \E failsRemember, failsSession \in BOOLEAN :
       LET out == loginUser(localStorage, logins[p].credentials, now,
                            failsRemember, failsSession)
       IN  /\ localStorage' = out.store
           /\ lastSession' = IF out.wroteSession THEN p ELSE lastSession
           /\ logins' = [logins EXCEPT ![p] =
                [@ EXCEPT !.pc = "done",
                          !.rememberFailed = out.rememberFailed,
                          !.sessionFailed = out.sessionFailed,
                          !.sets = out.sets,
                          !.result = out.result]]
  /\ UNCHANGED <<now, ticks, calls, lastWritten, lastCache>>

\* ------------------------------------------------ LoginManager: the page
\* The classes and feedback texts of the fields and the alert box are
\* written by the page and never read by it: here they are kept as what the
\* last event showed, until the next event.
VARIABLES
  form,          \* the login form: its three fields, the checkbox, the options
  initPc,        \* where the page is: init, its await, ready, redirecting, left
  deptParam,     \* the dept query parameter of the page's URL, '' when absent
  isSubmitting,  \* this.isSubmitting
  exchanges,     \* the loginUser calls of performLogin that are in flight
  lastSubmit     \* what the last submit or login result did and showed

formVars == <<form, initPc, deptParam, isSubmitting, exchanges, lastSubmit>>

\* The values the user gives the user name and the password: a user name
\* that is long enough, a password long enough for the user name's rule
\* only, and one long enough for its own.
FormUsernames == {<<"a","b","a">>}

FormPasswords == {Repeat("x", 3), Repeat("x", 6)}

\* The department the user picks in the select.
FormDepartments == {CharsOf["hr"]}

\* The dept parameters a page is opened with: none, a department, and a
\* value that names no department.
DeptParams == {<<>>, CharsOf["hr"], <<"z","z">>}

\* The ids of the department records.
DepartmentIds ==
  {CharsOf[MOCK_DEPARTMENTS[i].id] : i \in 1..Len(MOCK_DEPARTMENTS)}

\* An element of the form, undecorated: no validity class, no feedback.
newField(name, type, value) ==
  [name |-> name, type |-> type, value |-> value, classList |-> {},
   feedback |-> ""]

NoFields ==
  [username |-> newField("username", "text", <<>>),
   password |-> newField("password", "password", <<>>),
   departmentSelect |-> newField("departmentSelect", "select-one", <<>>)]

NoSubmit ==
  [kind |-> "none", isValid |-> FALSE, fields |-> NoFields, alert |-> ""]

\* The form as the page is loaded: empty fields, the select with its
\* placeholder option only, the checkbox clear.
newForm ==
  [username |-> [type |-> "text", value |-> <<>>],
   password |-> [type |-> "password", value |-> <<>>],
   departmentSelect |-> [type |-> "select-one", value |-> <<>>],
   rememberMe |-> FALSE,
   options |-> {<<>>}]

\* A select that takes any value assigned to it, option or not.
selectValueAny(options, v) == v

\* Assigning select.value: the option of that value is selected, and none
\* (the value reads '') when no option has it.
selectValue(options, v) == IF v \in options THEN v ELSE <<>>

\* populateDepartmentOptions: the placeholder and one option per department.
populateDepartmentOptions(f, depts) ==
  [f EXCEPT !.options =
     {<<>>} \cup {CharsOf[depts[i].id] : i \in 1..Len(depts)}]

\* validateField(field): the element as the call leaves it.
validateField(name, fld) ==
  LET r == validateFieldResult(fld.type, fld.value)
  IN  setFieldValidation(newField(name, fld.type, fld.value),
                         r.isValid, r.errorMessage)

\* handleUrlParams: a dept parameter is assigned to the select (which is
\* then validated).
handleUrlParams(f, param) ==
  IF param # <<>>
    THEN [f EXCEPT !.departmentSelect.value = selectValue(f.options, param)]
    ELSE f

\* storage.get(CONFIG.STORAGE_KEYS.REMEMBER_ME): the parsed entry, or the
\* default (null) when there is no item or localStorage or JSON.parse throws.
storageGetRemembered(store, fails) ==
  LET g == storageGetItem(store, STORAGE_KEYS.REMEMBER_ME, fails)
      p == parseRemembered(g.text)
  IN  IF g.found /\ p.ok
        THEN [found |-> TRUE, value |-> p.value]
        ELSE [found |-> FALSE,
              value |-> [username |-> <<>>, department |-> <<>>]]

\* loadRememberedCredentials: a remembered login fills the user name, the
\* select and the checkbox.
loadRememberedCredentials(f, remembered) ==
  IF remembered.found
    THEN [f EXCEPT !.username.value = remembered.value.username,
                   !.departmentSelect.value =
                      selectValue(f.options, remembered.value.department),
                   !.rememberMe = TRUE]
    ELSE f

\* validateForm: every field is validated, in order; the elements as the
\* call leaves them and the value returned.
validateForm(f) ==
  LET u == validateFieldResult(f.username.type, f.username.value)
      p == validateFieldResult(f.password.type, f.password.value)
      d == validateFieldResult(f.departmentSelect.type, f.departmentSelect.value)
  IN  [fields |-> [username |-> validateField("username", f.username),
                   password |-> validateField("password", f.password),
                   departmentSelect |->
                      validateField("departmentSelect", f.departmentSelect)],
       isValid |-> u.isValid /\ p.isValid /\ d.isValid]

\* The credentials performLogin reads off the form.
formCredentials(f) ==
  [username |-> trim(f.username.value),
   password |-> f.password.value,
   department |-> f.departmentSelect.value,
   rememberMe |-> f.rememberMe]

\* A handleSubmit that never takes the early return.
submitIgnoredNever(busy) == FALSE

\* handleSubmit's early return: if (this.isSubmitting) return.
submitIgnored(busy) == busy

\* The page is loaded and has not been left: the user works with the form.
Live == initPc \in {"ready", "redirecting"}

\* new LoginManager(): init runs up to its await inside loadDepartments,
\* where fetchDepartments has read the cache.
PageLoad ==
  /\ initPc = "constructed"
  /\ FetchStart("login")
  /\ initPc' = "loading"
  /\ UNCHANGED <<form, deptParam, isSubmitting, exchanges, lastSubmit>>

\* The page's fetchDepartments call resumes after its delay.
PageFetchResume ==
  /\ initPc = "loading"
  /\ FetchResume("login")
  /\ UNCHANGED formVars

\* init after its await: the options are filled, then handleUrlParams, then
\* loadRememberedCredentials.
InitDone ==
  /\ initPc = "loading"
  /\ calls["login"].pc = "done"
  /\ \E fails \in BOOLEAN :
       LET result == calls["login"].result
           loaded == IF result.success
                       THEN populateDepartmentOptions(form, result.data)
                       ELSE form
           remembered == storageGetRemembered(localStorage, fails)
       IN  form' = loadRememberedCredentials(
                     handleUrlParams(loaded, deptParam), remembered)
  /\ initPc' = "ready"
  /\ lastSubmit' = NoSubmit
  /\ UNCHANGED <<deptParam, isSubmitting, exchanges, cacheVars>>

\* The 'input' listener of the user name after the user has changed it.
SetUsername ==
  /\ Live
  /\ \E v \in FormUsernames \ {form.username.value} :
       form' = [form EXCEPT
                  !.username.value = v]
  /\ lastSubmit' = NoSubmit
  /\ UNCHANGED <<initPc, deptParam, isSubmitting, exchanges, cacheVars>>

\* The 'input' listener of the password after the user has changed it.
SetPassword ==
  /\ Live
  /\ \E v \in FormPasswords \ {form.password.value} :
       form' = [form EXCEPT
                  !.password.value = v]
  /\ lastSubmit' = NoSubmit
  /\ UNCHANGED <<initPc, deptParam, isSubmitting, exchanges, cacheVars>>

\* The 'input' listener of the select after the user has picked an option.
SelectDepartment ==
  /\ Live
  /\ \E v \in (FormDepartments \cap form.options) \ {form.departmentSelect.value} :
       form' = [form EXCEPT
                  !.departmentSelect.value = v]
  /\ lastSubmit' = NoSubmit
  /\ UNCHANGED <<initPc, deptParam, isSubmitting, exchanges, cacheVars>>

\* The user ticks or clears the remember-me checkbox.
ToggleRememberMe ==
  /\ Live
  /\ form' = [form EXCEPT !.rememberMe = ~@]
  /\ lastSubmit' = NoSubmit
  /\ UNCHANGED <<initPc, deptParam, isSubmitting, exchanges, cacheVars>>

\* togglePasswordVisibility: the type of the password input changes.
TogglePasswordVisibility ==
  /\ Live
  /\ form' = [form EXCEPT
                !.password.type = IF @ = "password" THEN "text" ELSE "password"]
  /\ lastSubmit' = NoSubmit
  /\ UNCHANGED <<initPc, deptParam, isSubmitting, exchanges, cacheVars>>

\* handleSubmit, and performLogin up to its await: nothing while a login is
\* in flight; else the form is validated and, if valid, loginUser is called.
HandleSubmit ==
  /\ Live
  /\ IF submitIgnored(isSubmitting)
       THEN /\ lastSubmit' = [NoSubmit EXCEPT !.kind = "ignored"]
            /\ UNCHANGED <<isSubmitting, exchanges>>
       ELSE LET v == validateForm(form) IN
            IF v.isValid
              THEN /\ ticks < MaxTicks
                   /\ isSubmitting' = TRUE
                   /\ exchanges' =
                        Append(exchanges,
                               [credentials |-> formCredentials(form),
                                startedAt |-> now])
                   /\ lastSubmit' = [kind |-> "started", isValid |-> TRUE,
                                     fields |-> v.fields, alert |-> ""]
              ELSE /\ lastSubmit' = [kind |-> "invalid", isValid |-> FALSE,
                                     fields |-> v.fields,
                                     alert |-> "Please correct the errors below"]
                   /\ UNCHANGED <<isSubmitting, exchanges>>
  /\ UNCHANGED <<form, initPc, deptParam, cacheVars>>

\* performLogin after its await: loginUser has returned, the alert shows the
\* outcome, a success arms the redirect, and finally the flag is cleared.
PerformLoginResume ==
  \E i \in 1..Len(exchanges) :
    /\ now - exchanges[i].startedAt >= LoginMinDelay
    /\ \E failsRemember, failsSession \in BOOLEAN :
         LET out == loginUser(localStorage, exchanges[i].credentials, now,
                              failsRemember, failsSession)
         IN  /\ localStorage' = out.store
             /\ lastSubmit' =
                  [NoSubmit EXCEPT
                     !.kind = IF out.result.success THEN "success" ELSE "danger",
                     !.alert = IF out.result.success THEN out.result.message
                               ELSE out.result.error]
             /\ initPc' = IF out.result.success THEN "redirecting" ELSE initPc
    /\ exchanges' = [j \in 1..(Len(exchanges) - 1) |->
                       IF j < i THEN exchanges[j] ELSE exchanges[j + 1]]
    /\ isSubmitting' = FALSE
    /\ UNCHANGED <<form, deptParam, now, ticks, calls, lastWritten>>

\* The redirect timer of a successful login fires: the page is left, and
\* what it had in flight goes with it.
Redirect ==
  /\ initPc = "redirecting"
  /\ initPc' = "left"
  /\ exchanges' = <<>>
  /\ isSubmitting' = FALSE
  /\ lastSubmit' = NoSubmit
  /\ UNCHANGED <<form, deptParam, cacheVars>>

\* Time passes while the page awaits a delay: the shortest delay of a login.
PageAdvance ==
  /\ \/ calls["login"].pc = "delay" /\ now - calls["login"].checkedAt < MinDelay
     \/ \E i \in 1..Len(exchanges) :
          now - exchanges[i].startedAt < LoginMinDelay
  /\ now' = now + LoginMinDelay
  /\ ticks' = ticks + 1
  /\ UNCHANGED <<localStorage, calls, lastWritten, formVars>>

\* ------------------------------------------------------------ specifications
vars ==
  <<validateVars, searchVars, cacheVars, debounceVars, apiVars, formVars>>

\* The login form as constructed: one of its elements, empty and unvalidated.
FieldInit ==
  \E f \in FormFields :
     field = [name |-> f.name, type |-> f.type, value |-> <<>>,
              classList |-> {}, feedback |-> ""]

\* The dashboard as constructed: nothing loaded, nothing typed.
DashboardIdle ==
  /\ departments = <<>>
  /\ filteredDepartments = <<>>
  /\ searchInput = <<>>
  /\ lastQuery = NoQuery

LoginIdle ==
  /\ field = [name |-> "username", type |-> "text", value |-> <<>>,
              classList |-> {}, feedback |-> ""]
  /\ validateRet = NoRet

\* A browser that has not run the application yet: an empty store.
CacheIdle ==
  /\ localStorage = [k \in {} |-> <<>>]
  /\ now = 0
  /\ ticks = 0
  /\ calls = [c \in Callers |-> IdleCall]
  /\ lastWritten = [written |-> FALSE,
                    entry |-> [data |-> <<>>, timestamp |-> 0]]

\* The dashboard's search box as constructed: no timer set, the load awaited.
DebounceIdle ==
  /\ loadState = "loading"
  /\ clock = 0
  /\ clockTicks = 0
  /\ timers = {}
  /\ timeout = 0
  /\ nextTimerId = 1
  /\ inputLog = NoInput
  /\ execLog = NoExec

\* A login page not opened.
FormIdle ==
  /\ form = newForm
  /\ initPc = "constructed"
  /\ deptParam = <<>>
  /\ isSubmitting = FALSE
  /\ exchanges = <<>>
  /\ lastSubmit = NoSubmit

\* No loginUser call made yet.
LoginApiIdle ==
  /\ logins = [p \in LoginPages |-> IdleLogin]
  /\ lastSession = "none"
  /\ lastCache = "none"

InitValidate ==
  /\ FormIdle
  /\ LoginApiIdle
  /\ FieldInit
  /\ validateRet = NoRet
  /\ DashboardIdle
  /\ CacheIdle
  /\ DebounceIdle

NextValidate ==
  \/ ValidateField /\ UNCHANGED <<searchVars, cacheVars, debounceVars, apiVars, formVars>>
  \/ TypeChar /\ UNCHANGED <<searchVars, cacheVars, debounceVars, apiVars, formVars>>
  \/ DeleteChar /\ UNCHANGED <<searchVars, cacheVars, debounceVars, apiVars, formVars>>
  \/ SelectOption /\ UNCHANGED <<searchVars, cacheVars, debounceVars, apiVars, formVars>>

SpecValidate == InitValidate /\ [][NextValidate]_vars

\* The search filter as a function: a loaded list (shown unfiltered, as
\* loadDepartments leaves it) and a typed query, then handleSearch.
InitSearch ==
  /\ FormIdle
  /\ LoginApiIdle
  /\ departments \in ListsUpTo(DeptRecords, MaxDepts)
  /\ filteredDepartments = departments
  /\ searchInput \in StringsUpTo(SearchChars, MaxQueryLen)
  /\ lastQuery = NoQuery
  /\ LoginIdle
  /\ CacheIdle
  /\ DebounceIdle

NextSearch ==
  KeypressEnter /\ UNCHANGED <<validateVars, cacheVars, debounceVars, apiVars, formVars>>

SpecSearch == InitSearch /\ [][NextSearch]_vars

\* The department cache: both pages call fetchDepartments, over one store.
InitCache ==
  /\ FormIdle
  /\ LoginApiIdle
  /\ CacheIdle
  /\ DashboardIdle
  /\ LoginIdle
  /\ DebounceIdle

NextCache ==
  \/ \E c \in Callers :
       FetchStart(c) /\ UNCHANGED <<validateVars, searchVars, debounceVars, apiVars, formVars>>
  \/ \E c \in Callers :
       FetchResume(c) /\ UNCHANGED <<validateVars, searchVars, debounceVars, apiVars, formVars>>
  \/ \E c \in Callers :
       FetchReturn(c) /\ UNCHANGED <<validateVars, searchVars, debounceVars, apiVars, formVars>>
  \/ Advance /\ UNCHANGED <<validateVars, searchVars, debounceVars, apiVars, formVars>>

SpecCache == InitCache /\ [][NextCache]_vars

\* The dashboard page: typing in the search box, its timers, the Enter key
\* and the end of the department load, in any order.
InitDashboard ==
  /\ FormIdle
  /\ LoginApiIdle
  /\ DashboardIdle
  /\ DebounceIdle
  /\ LoginIdle
  /\ CacheIdle

NextDashboard ==
  \/ InputEvent /\ UNCHANGED <<validateVars, cacheVars, apiVars, formVars>>
  \/ TimerFire /\ UNCHANGED <<validateVars, cacheVars, apiVars, formVars>>
  \/ Tick /\ UNCHANGED <<validateVars, cacheVars, apiVars, formVars>>
  \/ DashboardEnter /\ UNCHANGED <<validateVars, cacheVars, apiVars, formVars>>
  \/ LoadDepartmentsDone /\ UNCHANGED <<validateVars, cacheVars, apiVars, formVars>>

SpecDashboard == InitDashboard /\ [][NextDashboard]_vars

\* A browser with the dashboard and two login tabs open over one
\* localStorage: every page fetches the departments as it loads, each login
\* tab submits its form once, in any interleaving.
InitStore ==
  /\ FormIdle
  /\ CacheIdle
  /\ LoginApiIdle
  /\ DashboardIdle
  /\ LoginIdle
  /\ DebounceIdle

\* How many calls of fetchDepartments and loginUser a run begins.
MaxOps == 2

\* The calls begun so far.
OpsBegun ==
  Cardinality({c \in Callers : calls[c].pc # "idle"})
    + Cardinality({p \in LoginPages : logins[p].pc # "idle"})

StoreFetchStart(c) == OpsBegun < MaxOps /\ FetchStart(c) /\ UNCHANGED apiVars

StoreLoginStart(p, credentials) ==
  OpsBegun < MaxOps /\ LoginStart(p, credentials)

StoreFetchResume(c) ==
  /\ FetchResume(c)
  /\ lastCache' = IF calls'[c].writeFailed THEN lastCache ELSE c
  /\ UNCHANGED <<logins, lastSession>>

\* Time passes while a call awaits its delay: the shortest delay of a login.
StoreAdvance ==
  /\ \/ \E c \in Callers :
          calls[c].pc = "delay" /\ now - calls[c].checkedAt < MinDelay
     \/ \E p \in LoginPages :
          logins[p].pc = "delay" /\ now - logins[p].startedAt < LoginMinDelay
  /\ now' = now + LoginMinDelay
  /\ ticks' = ticks + 1
  /\ UNCHANGED <<localStorage, calls, lastWritten, apiVars, formVars>>

NextStore ==
  \/ \E c \in Callers :
       StoreFetchStart(c) /\ UNCHANGED <<validateVars, searchVars, debounceVars, formVars>>
  \/ \E c \in Callers :
       StoreFetchResume(c) /\ UNCHANGED <<validateVars, searchVars, debounceVars, formVars>>
  \/ \E p \in LoginPages, credentials \in StoreCredentials :
       StoreLoginStart(p, credentials)
         /\ UNCHANGED <<validateVars, searchVars, debounceVars, formVars>>
  \/ \E p \in LoginPages :
       LoginResume(p) /\ UNCHANGED <<validateVars, searchVars, debounceVars, formVars>>
  \/ StoreAdvance /\ UNCHANGED <<validateVars, searchVars, debounceVars, formVars>>

SpecStore == InitStore /\ [][NextStore]_vars

\* Two login tabs over one localStorage, nothing else running: each tab
\* submits its form once.
NextLogin ==
  \/ \E p \in LoginPages, credentials \in CredentialsSet :
       LoginStart(p, credentials)
         /\ UNCHANGED <<validateVars, searchVars, debounceVars, formVars>>
  \/ \E p \in LoginPages :
       LoginResume(p) /\ UNCHANGED <<validateVars, searchVars, debounceVars, formVars>>
  \/ StoreAdvance /\ UNCHANGED <<validateVars, searchVars, debounceVars, formVars>>

SpecLogin == InitStore /\ [][NextLogin]_vars

\* What localStorage holds when a login page is opened: nothing, or the
\* remembered login that an earlier visit left.
StoresAtLoad ==
  { [k \in {} |-> <<>>],
    [k \in {STORAGE_KEYS.REMEMBER_ME} |->
       stringifyRemembered([username |-> <<"b","a","b">>,
                            department |-> CharsOf["it"]])] }

\* One login page, from new LoginManager() on: the page loads, the user
\* edits the form, toggles the password's visibility and submits, in any
\* order.
InitForm ==
  /\ form = newForm
  /\ initPc = "constructed"
  /\ deptParam \in DeptParams
  /\ isSubmitting = FALSE
  /\ exchanges = <<>>
  /\ lastSubmit = NoSubmit
  /\ localStorage \in StoresAtLoad
  /\ now = 0
  /\ ticks = 0
  /\ calls = [c \in Callers |-> IdleCall]
  /\ lastWritten = [written |-> FALSE,
                    entry |-> [data |-> <<>>, timestamp |-> 0]]
  /\ LoginApiIdle
  /\ DashboardIdle
  /\ LoginIdle
  /\ DebounceIdle

\* The rest of the browser while the login page runs.
FormFrame == UNCHANGED <<validateVars, searchVars, debounceVars, apiVars>>

LoginResumes == PerformLoginResume /\ FormFrame

TimePasses == PageAdvance /\ FormFrame

NextForm ==
  \/ PageLoad /\ FormFrame
  \/ PageFetchResume /\ FormFrame
  \/ InitDone /\ FormFrame
  \/ SetUsername /\ FormFrame
  \/ SetPassword /\ FormFrame
  \/ SelectDepartment /\ FormFrame
  \/ ToggleRememberMe /\ FormFrame
  \/ TogglePasswordVisibility /\ FormFrame
  \/ HandleSubmit /\ FormFrame
  \/ LoginResumes
  \/ Redirect /\ FormFrame
  \/ TimePasses

SpecForm == InitForm /\ [][NextForm]_vars

\* The forms of a loaded page: the options filled, each field empty or
\* holding one of the user's values, the password hidden or shown.
LoadedForms ==
  {[username |-> [type |-> "text", value |-> u],
    password |-> [type |-> t, value |-> p],
    departmentSelect |-> [type |-> "select-one", value |-> d],
    rememberMe |-> r,
    options |-> {<<>>} \cup DepartmentIds] :
     u \in {<<>>} \cup FormUsernames, t \in {"password", "text"},
     p \in {<<>>} \cup FormPasswords, d \in {<<>>} \cup FormDepartments,
     r \in BOOLEAN}

\* A loaded login page whose department cache could not be written, the
\* form as the user has left it: from here on the user only submits.
InitSubmit ==
  /\ form \in LoadedForms
  /\ initPc = "ready"
  /\ deptParam = <<>>
  /\ isSubmitting = FALSE
  /\ exchanges = <<>>
  /\ lastSubmit = NoSubmit
  /\ CacheIdle
  /\ LoginApiIdle
  /\ DashboardIdle
  /\ LoginIdle
  /\ DebounceIdle

NextSubmit ==
  \/ HandleSubmit /\ FormFrame
  \/ LoginResumes
  \/ Redirect /\ FormFrame
  \/ TimePasses

\* The browser keeps running: time passes while a delay is awaited, and a
\* call whose delay has elapsed resumes.
SpecSubmitFair ==
  /\ InitSubmit
  /\ [][NextSubmit]_vars
  /\ WF_vars(TimePasses)
  /\ WF_vars(LoginResumes)

\* ------------------------------------------------------------------- claims
\* The number of characters between the first and the last character of s
\* that is not whitespace, both included: 0 when s holds only whitespace.
CoreLen(s) ==
  LET solid == {i \in 1..Len(s) : s[i] \notin Whitespace} IN
  IF solid = {} THEN 0
  ELSE (CHOOSE i \in solid : \A j \in solid : j <= i)
       - (CHOOSE i \in solid : \A j \in solid : i <= j) + 1

\* C1: a cache entry written by fetchDepartments and read by a call less
\* than 5 minutes after its timestamp is returned as it was written: the call
\* succeeds with exactly the list written, takes no simulated-fetch step and
\* writes nothing to the store.
C1_CacheRoundTrip ==
  \A c \in Callers :
    LET call == calls[c] IN
    (/\ call.pc = "done"
     /\ call.cached.present
     /\ call.checkedAt - call.cached.timestamp < TTL) =>
      /\ call.result.success
      /\ call.result.error = ""
      /\ call.delays = 0
      /\ call.sets = 0
      /\ (lastWritten.written
            /\ lastWritten.entry.timestamp = call.cached.timestamp) =>
           call.result.data = lastWritten.entry.data

\* A call read the seven departments back one millisecond before the entry
\* expired.
C1_Witness ==
  \E c \in Callers :
    /\ calls[c].pc = "done"
    /\ calls[c].cached.present
    /\ calls[c].checkedAt - calls[c].cached.timestamp = TTL - 1
    /\ calls[c].delays = 0
    /\ calls[c].result.data = lastWritten.entry.data
    /\ Len(calls[c].result.data) = Len(MOCK_DEPARTMENTS)

\* C2: a call that finds an entry whose age, now - timestamp, is 5 minutes
\* or more (exactly 5 minutes included) treats it as a miss and performs the
\* simulated fetch; a call that finds a younger one never does.
C2_ExpiryBoundary ==
  \A c \in Callers :
    LET call == calls[c] IN
    (call.pc # "idle" /\ call.cached.present) =>
      /\ (call.checkedAt - call.cached.timestamp >= TTL) => call.delays = 1
      /\ (call.checkedAt - call.cached.timestamp < TTL) => call.delays = 0

\* A call found an entry exactly 5 minutes old and is in its simulated fetch.
C2_Witness ==
  \E c \in Callers :
    /\ calls[c].pc = "delay"
    /\ calls[c].cached.present
    /\ calls[c].checkedAt - calls[c].cached.timestamp = TTL

\* The step in which caller c's fetchDepartments resumes after its delay and
\* returns.
ResumeStep(c) == calls[c].pc = "delay" /\ calls'[c].pc = "done"

\* The store holds, under the departments key, the list the call returned
\* stamped with the current time.
StoreHoldsFetched(store, call, dateNow) ==
  /\ STORAGE_KEYS.DEPARTMENTS \in DOMAIN store
  /\ parseCacheEntry(store[STORAGE_KEYS.DEPARTMENTS])
       = [ok |-> TRUE,
          value |-> [data |-> call.result.data, timestamp |-> dateNow]]

RECURSIVE IsSubseq(_, _)
IsSubseq(a, b) ==
  IF a = <<>> THEN TRUE
  ELSE IF b = <<>> THEN FALSE
  ELSE IF Head(a) = Head(b) THEN IsSubseq(Tail(a), Tail(b))
  ELSE IsSubseq(a, Tail(b))

\* C5: for every loaded list D and every query, the search filter yields a
\* sub-sequence of D (elements of D only, in D's relative order), and
\* handleSearch leaves D itself as it was.
C5_FilterIsSubsequence ==
  /\ [](IsSubseq(filteredDepartments, departments))
  /\ [][KeypressEnter => departments' = departments]_vars

\* A search has kept some of the loaded departments and dropped others.
C5_Witness ==
  /\ lastQuery.ran
  /\ filteredDepartments # <<>>
  /\ Len(filteredDepartments) < Len(departments)

\* C6: filtering with a query that is empty after trimming (the empty string
\* or whitespace only) yields a list equal to D, element for element.
C6_EmptyQueryKeepsAll ==
  (lastQuery.ran /\ CoreLen(lastQuery.value) = 0) =>
    filteredDepartments = departments

\* A search ran on a whitespace-only query over a non-empty list.
C6_Witness ==
  /\ lastQuery.ran
  /\ lastQuery.value # <<>>
  /\ CoreLen(lastQuery.value) = 0
  /\ departments # <<>>
  /\ filteredDepartments = departments

\* C7: the search filter is idempotent: filtering the already-filtered
\* result by the same query returns the same result.
C7_FilterIdempotent ==
  lastQuery.ran =>
    filterDepartments(filteredDepartments, lastQuery.value) = filteredDepartments

\* A search on a query with an upper-case letter kept exactly one of two
\* loaded departments.
C7_Witness ==
  /\ lastQuery.ran
  /\ \E i \in 1..Len(lastQuery.value) : lastQuery.value[i] \in DOMAIN LowerOf
  /\ Len(departments) = 2
  /\ Len(filteredDepartments) = 1

\* C8, as claimed: the debounced handler runs 300 ms after the last input
\* event of a run: once 300 ms have passed since the latest event the
\* handler has run for it, and it ran exactly 300 ms after that event.
C8_DebounceExactDelay ==
  /\ (inputLog.count > 0 /\ execLog.sinceInput = 0) =>
       clock <= inputLog.at + DebounceWait
  /\ (execLog.sinceInput > 0) => execLog.at = inputLog.at + DebounceWait

\* C8, amended: the debounced handler runs only from the timer of the latest
\* input event. Each input event cancels the pending timer and starts a new
\* 300 ms one, so at most one timer is pending, an earlier event never
\* causes an execution, the handler runs at most once after the latest event
\* and no sooner than 300 ms after it.
C8_DebounceLatestOnly ==
  /\ Cardinality(timers) <= 1
  /\ \A t \in timers :
       /\ t.id = timeout
       /\ t.id = inputLog.timer
       /\ t.due = inputLog.at + DebounceWait
  /\ execLog.sinceInput <= 1
  /\ (execLog.sinceInput = 1) =>
       /\ execLog.timer = inputLog.timer
       /\ execLog.at >= inputLog.at + DebounceWait
       /\ timers = {}

\* Two input events came less than 300 ms apart and the handler has run
\* once, 300 ms after the second.
C8_Witness ==
  /\ inputLog.count >= 2
  /\ inputLog.gap >= 0
  /\ inputLog.gap < DebounceWait
  /\ execLog.sinceInput = 1
  /\ execLog.timer = inputLog.timer
  /\ execLog.at = inputLog.at + DebounceWait

\* C9: validateField on the text (username) field is invalid with the
\* required message when the value is empty after trimming, invalid with the
\* minimum-length message when the trimmed value has fewer than 3 characters,
\* and valid otherwise.
C9_TextFieldRule ==
  (validateRet.called /\ validateRet.type = "text") =>
    LET n == CoreLen(validateRet.raw) IN
    /\ (n = 0) =>
         /\ ~validateRet.isValid
         /\ validateRet.errorMessage = "Username is required"
    /\ (0 < n /\ n < 3) =>
         /\ ~validateRet.isValid
         /\ validateRet.errorMessage = "Username must be at least 3 characters"
    /\ (n >= 3) => validateRet.isValid

\* A username padded with whitespace to three characters or more, whose
\* trimmed value is too short, has been validated and rejected.
C9_Witness ==
  /\ validateRet.called
  /\ validateRet.type = "text"
  /\ Len(validateRet.raw) >= 3
  /\ CoreLen(validateRet.raw) \in {1, 2}
  /\ ~validateRet.isValid

\* C10: validateField on the password field judges the raw value: invalid
\* with the required message exactly when the raw value is empty, invalid
\* with the too-short message when it is non-empty and has fewer than 6
\* characters, valid when it has 6 or more.
C10_PasswordRawRule ==
  (validateRet.called /\ validateRet.type = "password") =>
    LET raw == validateRet.raw IN
    /\ (raw = <<>>) <=>
         (~validateRet.isValid
            /\ validateRet.errorMessage = "Password is required")
    /\ (raw # <<>> /\ Len(raw) < 6) =>
         /\ ~validateRet.isValid
         /\ validateRet.errorMessage = "Password must be at least 6 characters"
    /\ (Len(raw) >= 6) => validateRet.isValid

\* The step in which page p's loginUser call resumes and returns.
LoginResumeStep(p) == logins[p].pc = "delay" /\ logins'[p].pc = "done"

\* The defensive checks as the claim words them: a field missing, a user
\* name under 3 characters, a password under 6.
FailsDefensiveChecks(credentials) ==
  \/ credentials.username = <<>>
  \/ credentials.password = <<>>
  \/ credentials.department = <<>>
  \/ Len(credentials.username) < 3
  \/ Len(credentials.password) < 6

\* C12: a loginUser call whose credentials fail the defensive checks returns
\* failure with no user record and leaves every entry of the store as it
\* was; a user name under 3 characters with the other fields valid is
\* answered with the username-too-short message.
C12_RejectedLeavesStore ==
  [][\A p \in LoginPages :
       LET credentials == logins[p].credentials
           result == logins'[p].result
       IN  (LoginResumeStep(p) /\ FailsDefensiveChecks(credentials)) =>
             /\ ~result.success
             /\ ~result.present
             /\ result.data = NoUser
             /\ result.error # ""
             /\ localStorage' = localStorage
             /\ lastSession' = lastSession
             /\ logins'[p].sets = 0
             /\ ( /\ credentials.username # <<>>
                  /\ Len(credentials.username) < 3
                  /\ Len(credentials.password) >= 6
                  /\ credentials.department # <<>> )
                  => result.error = "Username must be at least 3 characters"
    ]_vars

\* A call with a two-character user name has been rejected while the store
\* holds the session and the remembered login of an earlier login.
C12_Witness ==
  \E p \in LoginPages :
    /\ logins[p].pc = "done"
    /\ Len(logins[p].credentials.username) = 2
    /\ logins[p].result.error = "Username must be at least 3 characters"
    /\ ~logins[p].result.success
    /\ STORAGE_KEYS.USER_SESSION \in DOMAIN localStorage
    /\ STORAGE_KEYS.REMEMBER_ME \in DOMAIN localStorage

\* What a store holds under the session key: the parsed record, if any.
SessionOf(store) ==
  IF STORAGE_KEYS.USER_SESSION \in DOMAIN store
    THEN parseUserData(store[STORAGE_KEYS.USER_SESSION])
    ELSE [ok |-> FALSE, value |-> NoUser]

\* The text a store holds under a key, the empty text when the key is absent.
ItemOf(store, key) == IF key \in DOMAIN store THEN store[key] ELSE <<>>

\* The result of a passing login names the credentials' user.
ResolvesToSessionUser(credentials, result) ==
  /\ result.success
  /\ result.present
  /\ result.data.username = credentials.username
  /\ result.data.department = credentials.department
  /\ result.data.email = credentials.username \o EmailDomain

RememberedOf(store) ==
  IF STORAGE_KEYS.REMEMBER_ME \in DOMAIN store
    THEN parseRemembered(store[STORAGE_KEYS.REMEMBER_ME])
    ELSE [ok |-> FALSE, value |-> [username |-> <<>>, department |-> <<>>]]

TokenChars(t) ==
  IF t.k = "string" /\ t.s \in DOMAIN CharsOf THEN CharsOf[t.s] ELSE t.d

\* The characters q occur in s, one after the other.
Occurs(q, s) ==
  \E i \in 0..(Len(s) - Len(q)) : \A j \in 1..Len(q) : s[i + j] = q[j]

\* The passwords handed to loginUser so far.
SubmittedPasswords ==
  {logins[p].credentials.password : p \in {q \in LoginPages : logins[q].pc # "idle"}}
    \ {<<>>}

\* C15: whatever fetches and logins have run, successful or failed, no entry
\* of localStorage (department cache, session record, remembered login) has
\* a value in which a submitted password occurs.
C15_NoPasswordInStore ==
  \A password \in SubmittedPasswords :
    \A key \in DOMAIN localStorage :
      \A i \in 1..Len(localStorage[key]) :
        \/ localStorage[key][i].k = "punct"
        \/ ~Occurs(password, TokenChars(localStorage[key][i]))

\* The store holds all three entries after a fetch and a login with
\* remember-me whose password was six characters long.
C15_Witness ==
  /\ DOMAIN localStorage
       = {STORAGE_KEYS.DEPARTMENTS, STORAGE_KEYS.USER_SESSION,
          STORAGE_KEYS.REMEMBER_ME}
  /\ \E p \in LoginPages :
       /\ logins[p].pc = "done"
       /\ logins[p].result.success
       /\ Len(logins[p].credentials.password) = 6
       /\ SessionOf(localStorage).value.username
            = logins[p].credentials.username

\* What the store holds under the cache key: the parsed entry, if any.
CacheOf(store) == storageGetCacheEntry(store, FALSE)

\* The token of the timestamp in the text under the cache key: the entry is
\* written as {"data": [...], "timestamp": n}, so it is the last but one.
CacheStamp(store) ==
  LET text == ItemOf(store, STORAGE_KEYS.DEPARTMENTS)
  IN  tok(text, Len(text) - 1)

\* C19: nothing guards a store key against an older writer. Every
\* fetchDepartments call that missed the cache and every loginUser call with
\* passing credentials makes its write when it resumes, whatever has been
\* written to the key since the call began; unless localStorage throws, the
\* key then holds that call's value and the call is the key's last writer.
C19_LastWriterWins ==
  [][/\ \A c \in Callers :
          (calls[c].pc = "delay" /\ calls'[c].pc = "done") =>
            /\ calls'[c].sets = 1
            /\ calls'[c].result.success
            /\ ~calls'[c].writeFailed =>
                  /\ lastCache' = c
                  /\ STORAGE_KEYS.DEPARTMENTS \in DOMAIN localStorage'
                  /\ CacheStamp(localStorage') = Num(calls'[c].wroteAt)
     /\ \A p \in LoginPages :
          (LoginResumeStep(p) /\ ~FailsDefensiveChecks(logins[p].credentials))
            => /\ logins'[p].sets >= 1
               /\ logins'[p].result.success
               /\ ~logins'[p].sessionFailed =>
                     LET session == SessionOf(localStorage') IN
                     /\ lastSession' = p
                     /\ session.ok
                     /\ session.value = logins'[p].result.data
    ]_vars

\* Two tabs were logging in at once; the one that began later has completed
\* and written, then the one that began earlier wrote: the session key holds
\* the earlier call's user.
C19_Witness ==
  \E a, b \in LoginPages :
    /\ logins[a].pc = "done" /\ logins[b].pc = "done"
    /\ logins[a].result.success /\ logins[b].result.success
    /\ ~logins[a].sessionFailed /\ ~logins[b].sessionFailed
    /\ logins[a].startedAt < logins[b].startedAt
    /\ lastSession = a
    /\ logins[a].credentials.username # logins[b].credentials.username
    /\ SessionOf(localStorage).value.username = logins[a].credentials.username

\* The same race on the department cache: both pages missed, the page that
\* began later has written, then the page that began earlier wrote.
C19_FetchRace ==
  \E a, b \in Callers :
    /\ calls[a].pc = "done" /\ calls[b].pc = "done"
    /\ calls[a].delays = 1 /\ calls[b].delays = 1
    /\ ~calls[a].writeFailed /\ ~calls[b].writeFailed
    /\ calls[a].checkedAt < calls[b].checkedAt
    /\ lastCache = a
    /\ CacheOf(localStorage).found
    /\ CacheOf(localStorage).value.timestamp = calls[a].wroteAt

\* ---- C11
\* The last event was a submit on which validateForm ran.
ValidateFormRan == lastSubmit.kind \in {"started", "invalid"}

\* The rule of each field of the form, by the field it is.
UsernameRuleHolds(f) == Len(trim(f.username.value)) >= 3

PasswordRuleHolds(f) == Len(f.password.value) >= 6

DepartmentRuleHolds(f) == f.departmentSelect.value # <<>>

\* The validity class a field shows after validateField.
Refreshed(fld) == fld.classList \in {{"is-valid"}, {"is-invalid"}}

\* C11 (part): validateForm evaluates every field on each call, without
\* stopping at the first invalid one: each field's validity state is set.
C11_EveryFieldEvaluated ==
  ValidateFormRan =>
    /\ Refreshed(lastSubmit.fields.username)
    /\ Refreshed(lastSubmit.fields.password)
    /\ Refreshed(lastSubmit.fields.departmentSelect)

\* C11: validateForm returns true only if the username, the password and
\* the department are each valid under their rules, and every field's
\* validity state is refreshed on each call.
C11_ValidOnlyIfEachFieldValid ==
  ValidateFormRan =>
    /\ lastSubmit.isValid =>
         /\ UsernameRuleHolds(form)
         /\ PasswordRuleHolds(form)
         /\ DepartmentRuleHolds(form)
    /\ C11_EveryFieldEvaluated

\* A shown password of three characters has passed validateForm.
C11_ShortPasswordPassed ==
  /\ lastSubmit.kind = "started"
  /\ form.password.type = "text"
  /\ Len(form.password.value) = 3

\* ---- C16
\* C16: duplicate submission is disabled while a login is in flight: at most
\* one loginUser exchange is in flight at any time, a submit arriving while
\* the busy flag is set starts nothing, every exchange that returns clears
\* the flag, success or failure, and a set flag is eventually cleared.
C16_NoDuplicateSubmission ==
  /\ [](Len(exchanges) <= 1)
  /\ [][(isSubmitting /\ HandleSubmit)
          => /\ exchanges' = exchanges
             /\ isSubmitting' = isSubmitting
             /\ localStorage' = localStorage
             /\ form' = form]_vars
  /\ [][LoginResumes => ~isSubmitting']_vars
  /\ (isSubmitting ~> ~isSubmitting)

\* A submit has arrived while the one exchange was in flight.
C16_Witness ==
  /\ lastSubmit.kind = "ignored"
  /\ isSubmitting
  /\ Len(exchanges) = 1

\* ---- C17
\* init has just finished on a page opened with a dept parameter that names
\* a loaded department.
InitFinishedWithDept ==
  /\ initPc = "ready"
  /\ lastSubmit = NoSubmit
  /\ deptParam \in form.options \ {<<>>}

\* C17: when the login page is loaded with a dept query parameter naming a
\* loaded department, the department select holds that department once
\* initialization has finished, whatever the persistent store contains.
C17_DeptParamPreselects ==
  [][(initPc = "loading" /\ initPc' = "ready"
        /\ deptParam \in form'.options \ {<<>>})
       => form'.departmentSelect.value = deptParam]_vars

\* init has finished on a page opened with ?dept=hr while the store held a
\* remembered login for another department: the select holds the latter.
C17_RememberedOverridesParam ==
  /\ initPc = "ready"
  /\ deptParam = CharsOf["hr"]
  /\ form.departmentSelect.value = CharsOf["it"]
  /\ form.username.value = <<"b","a","b">>

\* ---- C18
\* C18: every session record and every remembered-login entry that a login
\* through the form persists has a department that is the id of one of the
\* department records.
C18_PersistedDepartmentKnown ==
  [][/\ (ItemOf(localStorage', STORAGE_KEYS.USER_SESSION)
           # ItemOf(localStorage, STORAGE_KEYS.USER_SESSION))
          => /\ SessionOf(localStorage').ok
             /\ SessionOf(localStorage').value.department \in DepartmentIds
     /\ (ItemOf(localStorage', STORAGE_KEYS.REMEMBER_ME)
           # ItemOf(localStorage, STORAGE_KEYS.REMEMBER_ME))
          => /\ RememberedOf(localStorage').ok
             /\ RememberedOf(localStorage').value.department \in DepartmentIds
    ]_vars

\* A login through the form has persisted a session record and a
\* remembered login, on a page opened with a dept parameter that names no
\* department.
C18_Witness ==
  /\ initPc = "redirecting"
  /\ deptParam = <<"z","z">>
  /\ SessionOf(localStorage).ok
  /\ SessionOf(localStorage).value.department = CharsOf["hr"]
  /\ RememberedOf(localStorage).ok
  /\ RememberedOf(localStorage).value.department = CharsOf["hr"]

\* ---- C20
\* The messages of the password rule, and those of loginUser's re-check.
PasswordMessages ==
  {"Password is required", "Password must be at least 6 characters"}

RecheckMessages ==
  {"All fields are required", "Username must be at least 3 characters",
   "Password must be at least 6 characters"}

\* validateForm has passed a password of fewer than six characters.
C20_ShortPasswordValid ==
  ValidateFormRan /\ lastSubmit.isValid /\ Len(form.password.value) < 6

\* The password field has failed with a message that is not a password's.
C20_UsernameMessageOnPassword ==
  /\ ValidateFormRan
  /\ "is-invalid" \in lastSubmit.fields.password.classList
  /\ lastSubmit.fields.password.feedback \notin PasswordMessages

\* loginUser's re-check has rejected credentials that validateForm passed.
C20_RejectedAfterValidation ==
  lastSubmit.kind = "danger" /\ lastSubmit.alert \in RecheckMessages

\* C20: the password rule is applied to the password field in every
\* reachable state of the login form, whatever the visibility toggles:
\* validateForm returns true only if the password has at least 6 characters,
\* a failing password field gets a password message, and credentials that
\* passed validateForm are never rejected by loginUser's re-check.
C20_PasswordRuleInEveryState ==
  /\ ~C20_ShortPasswordValid
  /\ ~C20_UsernameMessageOnPassword
  /\ ~C20_RejectedAfterValidation

\* ---- C21
\* The dashboard is quiescent: the department load has finished and no
\* debounce timer is pending.
Quiescent == loadState = "loaded" /\ timers = {}

\* C21: whenever the dashboard is quiescent, the displayed list equals the
\* filter of the loaded departments by the text currently in the search
\* input, for every interleaving of typing, the Enter key and the completion
\* of the load.
C21_QuiescentListIsFiltered ==
  Quiescent => filteredDepartments = filterDepartments(departments, searchInput)

\* The load has finished after the debounced search of a typed query ran:
\* the dashboard is quiescent and shows departments the query excludes.
C21_LoadShowsUnfiltered ==
  /\ Quiescent
  /\ lastQuery.ran
  /\ execLog.sinceInput = 1
  /\ trim(toLowerCase(searchInput)) # <<>>
  /\ filteredDepartments = departments
  /\ filterDepartments(departments, searchInput) # departments

====
